---- MODULE Spec2Model ----
(***************************************************************************)
(* The authentication controller (backend/controllers/authController.js):  *)
(* register, login and getMe, run by concurrent requests against one user  *)
(* collection.  A handler is cut into steps at its awaits on the store:    *)
(* everything between two awaits runs without interruption on the event    *)
(* loop, while other requests may run between an await and its result.     *)
(***************************************************************************)
EXTENDS Integers, Sequences, FiniteSets, TLC

(* Requests accepted over a run, over all request slots. *)
MaxCalls == 3

(* Requests that can be in flight at the same time. *)
Procs == {1, 2}

(***************************************************************************)
(* JavaScript values.  undefined / null is the empty tuple and a present   *)
(* value v is <<v>>, so that the falsy values "" and 0 stay distinct from  *)
(* an absent one.                                                          *)
(***************************************************************************)
Undefined == << >>

Some(v) == <<v>>

(* `x` used as a condition, x a string or undefined: "" and undefined are falsy. *)
TruthyString(x) == x # Undefined /\ x # Some("")

(* `x` used as a condition, x a number or undefined: 0 and undefined are falsy. *)
TruthyNumber(x) == x # Undefined /\ x # Some(0)

(***************************************************************************)
(* Request inputs.                                                         *)
(***************************************************************************)
FirstEmail == "a@x.org"

Emails == {FirstEmail, "b@x.org"}

FirstPassword == "pw1"

Passwords == {FirstPassword, "pw2"}

Names == {"Ann"}

Phones == <<"", "555", "777">>

Ages == <<0, 30, 40>>

Genders == <<"", "female", "male">>

Fields == {"phone", "age", "gender"}

(* The optional fields of a body: those of `present` carry the k-th value. *)
Optional(present, k) ==
  [phone  |-> IF "phone" \in present THEN Some(Phones[k]) ELSE Undefined,
   age    |-> IF "age" \in present THEN Some(Ages[k]) ELSE Undefined,
   gender |-> IF "gender" \in present THEN Some(Genders[k]) ELSE Undefined]

Optionals ==
  {Optional(present, k) : present \in {{}, {"phone"}, {"age"}, {"gender"}, Fields},
                          k \in 1..3}

Body(op, name, email, password, opt, id) ==
  [op |-> op, name |-> name, email |-> email, password |-> password,
   phone |-> opt.phone, age |-> opt.age, gender |-> opt.gender, id |-> id]

NoReq == Body("none", Undefined, Undefined, Undefined, Optional({}, 1), 0)

(* req.body of POST /register.  The first email is registered with every    *)
(* choice of optional fields under the first password, and with none or all *)
(* of them under no or another password; the second email only provides a   *)
(* second account.                                                          *)
RegisterBodies ==
  {Body("register", Some(n), Some(FirstEmail), Some(FirstPassword), o, 0) :
     n \in Names, o \in Optionals}
  \cup {Body("register", Some(n), Some(FirstEmail), q, o, 0) :
          n \in Names,
          q \in {Undefined} \cup {Some(r) : r \in Passwords \ {FirstPassword}},
          o \in {Optional({}, 1), Optional(Fields, 3)}}
  \cup {Body("register", Some(n), Some(e), Some(q), Optional({}, 1), 0) :
          n \in Names, e \in Emails \ {FirstEmail}, q \in Passwords}

(* req.body of POST /login. *)
LoginBodies ==
  {Body("login", Undefined, e, q, Optional({}, 1), 0) :
     e \in {Undefined} \cup {Some(x) : x \in Emails},
     q \in {Undefined} \cup {Some(x) : x \in Passwords}}

(* req.user.id of GET /me: the id of any account there can be, and one more. *)
UserIds == 1..(Cardinality(Emails) + 1)

(***************************************************************************)
(* The User model (backend/models/User, a Mongoose model over a collection *)
(* with a unique index on email).  The collection is the sequence of its   *)
(* documents in insertion order; a document's _id is its position.         *)
(***************************************************************************)
DefaultRole == "patient"

(* The salted hash the model stores in place of the password. *)
Hash(plain) == [alg |-> "bcrypt", of |-> plain]

(* doc.comparePassword(candidate) *)
comparePassword(doc, candidate) == doc.password = Hash(candidate[1])

(* User.findOne({ email }).select('+password'): the document or null. *)
findOne(coll, email) ==
  LET hits == {i \in 1..Len(coll) : Some(coll[i].email) = email}
  IN  IF hits = {} THEN Undefined
      ELSE Some(coll[CHOOSE i \in hits : \A j \in hits : i <= j])

(* User.findById(id): the document or null. *)
findById(coll, id) == IF id \in 1..Len(coll) THEN Some(coll[id]) ELSE Undefined

ValidationError ==
  [name |-> "ValidationError", message |-> "User validation failed", statusCode |-> 0]

DuplicateKeyError ==
  [name |-> "MongoServerError", message |-> "E11000 duplicate key error",
   statusCode |-> 0]

NoError == [name |-> "", message |-> "", statusCode |-> 0]

(* What User.create(body) throws: a missing required field fails validation, *)
(* an email already in the collection violates the unique index.             *)
createError(coll, body) ==
  IF ~TruthyString(body.email) \/ ~TruthyString(body.password) THEN ValidationError
  ELSE IF findOne(coll, body.email) # Undefined THEN DuplicateKeyError
  ELSE NoError

(* The document User.create(body) inserts. *)
createdDoc(coll, body) ==
  [_id |-> Len(coll) + 1, name |-> body.name, email |-> body.email[1],
   password |-> Hash(body.password[1]), phone |-> body.phone, age |-> body.age,
   gender |-> body.gender, role |-> DefaultRole]

(* doc.save(): the modified paths of the document are written to its record. *)
save(coll, doc, paths) ==
  [coll EXCEPT ![doc._id] =
     [f \in DOMAIN @ |-> IF f \in paths THEN doc[f] ELSE @[f]]]

(***************************************************************************)
(* The controller.                                                         *)
(***************************************************************************)
VARIABLES
  users,         \* the user collection
  pc,            \* per request slot: the await the handler is suspended at
  req,           \* per request slot: the request being served, or served last
  existingUser,  \* register's existingUser
  modified,      \* the paths register assigned on existingUser
  user,          \* login's user
  resp,          \* per request slot: what the handler sent or passed to next()
  path,          \* per request slot: the statement the handler ended at
  calls          \* requests accepted so far

vars == <<users, pc, req, existingUser, modified, user, resp, path, calls>>

(* Mutant: the token also carries the role of the account. *)
generateTokenWithRole(id) == [id |-> id, role |-> DefaultRole]

(* jwt.sign({ id }, secret, { expiresIn }): the claims of the token. *)
generateToken(id) == [id |-> id]

AppError(message, statusCode) ==
  [name |-> "AppError", message |-> message, statusCode |-> statusCode]

(* What reading a property of null throws. *)
TypeError ==
  [name |-> "TypeError", message |-> "Cannot read properties of null",
   statusCode |-> 0]

NoResp ==
  [kind |-> "none", status |-> 0, message |-> "", user |-> Undefined,
   token |-> Undefined, error |-> ""]

(* next(err) *)
NextResp(err) ==
  [kind |-> "next", status |-> err.statusCode, message |-> err.message,
   user |-> Undefined, token |-> Undefined, error |-> err.name]

(* res.status(status).json({ success: true, message, data: { user, token } }) *)
JsonResp(status, message, view, token) ==
  [kind |-> "json", status |-> status, message |-> message, user |-> Some(view),
   token |-> token, error |-> ""]

(* The user view register and login send. *)
AuthView(doc) ==
  [id |-> doc._id, name |-> doc.name, email |-> doc.email, role |-> doc.role,
   phone |-> doc.phone]

(* The user view getMe sends (createdAt is not tracked). *)
MeView(doc) ==
  [id |-> doc._id, name |-> doc.name, email |-> doc.email, role |-> doc.role]

MsgNoPassword == "Account already exists with this email. Please login."

MsgWrongPassword ==
  "Account already exists with this email. Please login with your original password."

MsgRecognized == "Existing patient recognized. Logged in successfully."

MsgRegistered == "User registered successfully"

MsgMissing == "Please provide email and password"

MsgInvalid == "Invalid credentials"

MsgLogin == "Login successful"

Init ==
  /\ users = << >>
  /\ pc = [p \in Procs |-> "idle"]
  /\ req = [p \in Procs |-> NoReq]
  /\ existingUser = [p \in Procs |-> Undefined]
  /\ modified = [p \in Procs |-> {}]
  /\ user = [p \in Procs |-> Undefined]
  /\ resp = [p \in Procs |-> NoResp]
  /\ path = [p \in Procs |-> "none"]
  /\ calls = 0

(* A request arrives on slot p, which serves one request at a time. *)
Accept(p) ==
  /\ pc[p] \in {"idle", "done"}
  /\ calls < MaxCalls
  /\ calls' = calls + 1

(* The handler of slot p, entered with fresh locals, suspends at its first await. *)
Suspend(p, body, at) ==
  /\ req' = [req EXCEPT ![p] = body]
  /\ pc' = [pc EXCEPT ![p] = at]
  /\ existingUser' = [existingUser EXCEPT ![p] = Undefined]
  /\ modified' = [modified EXCEPT ![p] = {}]
  /\ user' = [user EXCEPT ![p] = Undefined]
  /\ resp' = [resp EXCEPT ![p] = NoResp]
  /\ path' = [path EXCEPT ![p] = "none"]

(* The handler of slot p returns having sent or forwarded r; its locals die. *)
Return(p, r, at) ==
  /\ pc' = [pc EXCEPT ![p] = "done"]
  /\ resp' = [resp EXCEPT ![p] = r]
  /\ path' = [path EXCEPT ![p] = at]
  /\ existingUser' = [existingUser EXCEPT ![p] = Undefined]
  /\ modified' = [modified EXCEPT ![p] = {}]
  /\ user' = [user EXCEPT ![p] = Undefined]

(* register, to its await of findOne. *)
RegisterCall(p) ==
  \E body \in RegisterBodies :
    /\ Accept(p)
    /\ Suspend(p, body, "reg_findOne")
    /\ UNCHANGED users

(* Mutant: the missing-password check answers 401. *)
noPasswordUnauthorized == NextResp(AppError(MsgNoPassword, 401))

(* next(new AppError(..., 400)) of the missing-password check. *)
noPasswordResponse == NextResp(AppError(MsgNoPassword, 400))

(* register: findOne resolves; the missing-password check. *)
RegFindOne(p) ==
  /\ pc[p] = "reg_findOne"
  /\ LET found == findOne(users, req[p].email)
     IN  IF found = Undefined
         THEN /\ pc' = [pc EXCEPT ![p] = "reg_create"]
              /\ UNCHANGED <<resp, path, existingUser, modified, user>>
         ELSE IF ~TruthyString(req[p].password)
         THEN Return(p, noPasswordResponse, "reg_no_password")
         ELSE /\ pc' = [pc EXCEPT ![p] = "reg_compare"]
              /\ existingUser' = [existingUser EXCEPT ![p] = found]
              /\ UNCHANGED <<resp, path, modified, user>>
  /\ UNCHANGED <<users, req, calls>>

(* The paths the backfill assigns on doc for this body. *)
backfillPaths(doc, body) ==
  {f \in Fields :
     \/ f = "phone" /\ TruthyString(body.phone) /\ ~TruthyString(doc.phone)
     \/ f = "age" /\ TruthyNumber(body.age) /\ ~TruthyNumber(doc.age)
     \/ f = "gender" /\ TruthyString(body.gender) /\ ~TruthyString(doc.gender)}

(* doc after the backfill. *)
backfill(doc, body) ==
  [f \in DOMAIN doc |-> IF f \in backfillPaths(doc, body) THEN body[f] ELSE doc[f]]

(* Mutant: the result of the comparison is ignored. *)
passwordUnchecked(doc, body) == TRUE

(* await doc.comparePassword(password) on the password of the body. *)
passwordMatches(doc, body) == comparePassword(doc, body.password)

(* next(new AppError(..., 400)) of the password comparison. *)
wrongPasswordResponse == NextResp(AppError(MsgWrongPassword, 400))

(* Mutant: the recognized path answers as a registration does. *)
recognizedAsRegistered(doc) ==
  JsonResp(201, MsgRegistered, AuthView(doc), Some(generateToken(doc._id)))

(* The response of the recognized path. *)
recognizedResponse(doc) ==
  JsonResp(200, MsgRecognized, AuthView(doc), Some(generateToken(doc._id)))

(* register: comparePassword resolves; the backfill, to its await of save, *)
(* or the response when nothing was assigned.                              *)
RegCompare(p) ==
  /\ pc[p] = "reg_compare"
  /\ LET doc == existingUser[p][1]
         filled == backfill(doc, req[p])
         profileUpdated == backfillPaths(doc, req[p]) # {}
     IN  IF ~passwordMatches(doc, req[p])
         THEN Return(p, wrongPasswordResponse, "reg_wrong_password")
         ELSE IF profileUpdated
         THEN /\ pc' = [pc EXCEPT ![p] = "reg_save"]
              /\ existingUser' = [existingUser EXCEPT ![p] = Some(filled)]
              /\ modified' = [modified EXCEPT ![p] = backfillPaths(doc, req[p])]
              /\ UNCHANGED <<resp, path, user>>
         ELSE Return(p, recognizedResponse(filled), "reg_recognized")
  /\ UNCHANGED <<users, req, calls>>

(* register: save resolves; the response of the recognized path. *)
RegSave(p) ==
  /\ pc[p] = "reg_save"
  /\ users' = save(users, existingUser[p][1], modified[p])
  /\ Return(p, recognizedResponse(existingUser[p][1]), "reg_recognized")
  /\ UNCHANGED <<req, calls>>

(* The response for the document create returned. *)
createdResponse(doc) ==
  JsonResp(201, MsgRegistered, AuthView(doc), Some(generateToken(doc._id)))

(* Mutant: the catch answers a duplicate key as a recognized account. *)
catchDuplicateSwallowed(err) ==
  IF err.name = "MongoServerError"
  THEN [kind |-> "json", status |-> 200, message |-> MsgRecognized,
        user |-> Undefined, token |-> Undefined, error |-> ""]
  ELSE NextResp(err)

(* catch (error) { next(error) } *)
catchResponse(err) == NextResp(err)

(* register: create resolves or throws; the response or the catch. *)
RegCreate(p) ==
  /\ pc[p] = "reg_create"
  /\ LET err == createError(users, req[p])
         doc == createdDoc(users, req[p])
     IN  IF err # NoError
         THEN /\ Return(p, catchResponse(err), "reg_catch")
              /\ UNCHANGED users
         ELSE /\ users' = Append(users, doc)
              /\ Return(p, createdResponse(doc), "reg_created")
  /\ UNCHANGED <<req, calls>>

(* next(new AppError('Please provide email and password', 400)) *)
missingResponse == NextResp(AppError(MsgMissing, 400))

(* login: the presence check, which returns at once, or on to the await of *)
(* findOne.                                                                *)
LoginCall(p) ==
  \E body \in LoginBodies :
    /\ Accept(p)
    /\ IF ~TruthyString(body.email) \/ ~TruthyString(body.password)
       THEN /\ Return(p, missingResponse, "login_missing")
            /\ req' = [req EXCEPT ![p] = body]
       ELSE Suspend(p, body, "login_findOne")
    /\ UNCHANGED users

(* next(new AppError('Invalid credentials', 401)) *)
invalidResponse == NextResp(AppError(MsgInvalid, 401))

(* Mutant: a missing user is answered apart from a wrong password. *)
LoginFindOneReveals(p) ==
  /\ pc[p] = "login_findOne"
  /\ LET found == findOne(users, req[p].email)
     IN  IF found = Undefined
         THEN Return(p, NextResp(AppError("User not found", 404)), "login_no_user")
         ELSE /\ pc' = [pc EXCEPT ![p] = "login_compare"]
              /\ user' = [user EXCEPT ![p] = found]
              /\ UNCHANGED <<resp, path, existingUser, modified>>
  /\ UNCHANGED <<users, req, calls>>

(* login: findOne resolves; !user ends the handler. *)
LoginFindOne(p) ==
  /\ pc[p] = "login_findOne"
  /\ LET found == findOne(users, req[p].email)
     IN  IF found = Undefined
         THEN Return(p, invalidResponse, "login_no_user")
         ELSE /\ pc' = [pc EXCEPT ![p] = "login_compare"]
              /\ user' = [user EXCEPT ![p] = found]
              /\ UNCHANGED <<resp, path, existingUser, modified>>
  /\ UNCHANGED <<users, req, calls>>

(* The response of a login. *)
loginResponse(doc) ==
  JsonResp(200, MsgLogin, AuthView(doc), Some(generateToken(doc._id)))

(* login: comparePassword resolves. *)
LoginCompare(p) ==
  /\ pc[p] = "login_compare"
  /\ IF ~passwordMatches(user[p][1], req[p])
     THEN Return(p, invalidResponse, "login_wrong_password")
     ELSE Return(p, loginResponse(user[p][1]), "login_ok")
  /\ UNCHANGED <<users, req, calls>>

(* getMe, to its await of findById. *)
GetMeCall(p) ==
  \E id \in UserIds :
    /\ Accept(p)
    /\ Suspend(p, Body("getMe", Undefined, Undefined, Undefined, Optional({}, 1), id),
               "getMe_findById")
    /\ UNCHANGED users

(* What getMe does with the result of findById: building the response reads *)
(* user._id, which throws on null into the catch.                           *)
getMeResponse(found) ==
  IF found = Undefined THEN catchResponse(TypeError)
  ELSE JsonResp(200, "", MeView(found[1]), Undefined)

(* getMe: findById resolves. *)
GetMeFindById(p) ==
  /\ pc[p] = "getMe_findById"
  /\ LET found == findById(users, req[p].id)
     IN  Return(p, getMeResponse(found),
                IF found = Undefined THEN "getMe_catch" ELSE "getMe_ok")
  /\ UNCHANGED <<users, req, calls>>

Next ==
  \E p \in Procs :
    \/ RegisterCall(p)
    \/ RegFindOne(p)
    \/ RegCompare(p)
    \/ RegSave(p)
    \/ RegCreate(p)
    \/ LoginCall(p)
    \/ LoginFindOne(p)
    \/ LoginCompare(p)
    \/ GetMeCall(p)
    \/ GetMeFindById(p)

Spec == Init /\ [][Next]_vars

(* No request is in flight. *)
Quiescent == \A q \in Procs : pc[q] \in {"idle", "done"}

(* Requests served one after the other: a request arrives only when none is *)
(* in flight.                                                               *)
NextSeq ==
  \E p \in Procs :
    \/ Quiescent /\ RegisterCall(p)
    \/ RegFindOne(p)
    \/ RegCompare(p)
    \/ RegSave(p)
    \/ RegCreate(p)
    \/ Quiescent /\ LoginCall(p)
    \/ LoginFindOne(p)
    \/ LoginCompare(p)
    \/ Quiescent /\ GetMeCall(p)
    \/ GetMeFindById(p)

SpecSeq == Init /\ [][NextSeq]_vars

(***************************************************************************)
(* Properties.                                                             *)
(***************************************************************************)

(* The positions of the documents with this email. *)
Records(email) == {i \in DOMAIN users : Some(users[i].email) = email}

(* Slot p has returned from a register call. *)
Registered(p) == req[p].op = "register" /\ pc[p] = "done"

(* Slot p has returned from a register call that went through User.create. *)
WentToCreate(p) == Registered(p) /\ path[p] \in {"reg_created", "reg_catch"}

(* Two register calls with passwords, for one email, both found no account *)
(* and both went on to User.create.                                        *)
RacedCreate(p, q) ==
  /\ p # q
  /\ WentToCreate(p) /\ WentToCreate(q)
  /\ req[p].email = req[q].email
  /\ TruthyString(req[p].password) /\ TruthyString(req[q].password)

IsCreated201(r) ==
  r.kind = "json" /\ r.status = 201 /\ r.token # Undefined

IsDuplicateFailure(r) ==
  r.kind = "next" /\ r.error = "MongoServerError" /\ r.token = Undefined
  /\ r.user = Undefined

(* C1: of two register calls with passwords for the same new email that    *)
(* both looked the email up before either created it, exactly one ends     *)
(* with 201 and the other with the store's duplicate-key failure passed to *)
(* next(), and the collection holds exactly one document for the email.    *)
C1_ExactlyOneCreated ==
  \A p \in Procs, q \in Procs :
    RacedCreate(p, q) =>
      /\ Cardinality(Records(req[p].email)) = 1
      /\ \/ IsCreated201(resp[p]) /\ IsDuplicateFailure(resp[q])
         \/ IsCreated201(resp[q]) /\ IsDuplicateFailure(resp[p])

C1_Witness ==
  \E p \in Procs, q \in Procs :
    /\ RacedCreate(p, q)
    /\ IsCreated201(resp[p])
    /\ IsDuplicateFailure(resp[q])
    /\ req[p].password # req[q].password

(* C3: getMe for an id that resolves to no document ends with a not-found *)
(* error passed to next().                                                *)
C3_NotFound ==
  \A p \in Procs :
    (req[p].op = "getMe" /\ pc[p] = "done" /\ req[p].id \notin DOMAIN users) =>
      (resp[p].kind = "next" /\ resp[p].error = "AppError" /\ resp[p].status = 404)

(* Slots p and q have returned from register calls with the same email and *)
(* the same password, which is the password of the account.                *)
SameRegistration(p, q) ==
  /\ p # q
  /\ Registered(p) /\ Registered(q)
  /\ req[p].email = req[q].email
  /\ req[p].password = req[q].password
  /\ TruthyString(req[p].password)
  /\ \E i \in Records(req[p].email) : comparePassword(users[i], req[p].password)

IsRecognized200(r) ==
  r.kind = "json" /\ r.status = 200 /\ r.message = MsgRecognized
  /\ r.token # Undefined

(* C5: of two register calls made one after the other with the same email *)
(* and password, the one that created the account got 201 and the other   *)
(* got 200 with the recognized message and a token for the same id, and   *)
(* the collection holds exactly one document for the email.               *)
C5_RepeatRecognized ==
  \A p \in Procs, q \in Procs :
    SameRegistration(p, q) =>
      /\ Cardinality(Records(req[p].email)) = 1
      /\ IsCreated201(resp[p]) \/ IsRecognized200(resp[p])
      /\ IsCreated201(resp[q]) \/ IsRecognized200(resp[q])
      /\ ~(IsCreated201(resp[p]) /\ IsCreated201(resp[q]))
      /\ resp[p].token = resp[q].token
      /\ resp[p].token[1].id \in Records(req[p].email)
      /\ resp[p].user[1].id = resp[p].token[1].id

C5_Witness ==
  \E p \in Procs, q \in Procs :
    /\ SameRegistration(p, q)
    /\ IsCreated201(resp[p])
    /\ IsRecognized200(resp[q])
    /\ resp[p].token = resp[q].token
    /\ Len(users) = 2

(* C10: a response carries a token only when it is the 201 of a register   *)
(* that created the account, the 200 of a register or login whose password *)
(* is the account's, and then for that account's id; nothing passed to     *)
(* next() and no response of getMe carries one.                            *)
C10_TokenOnlyForVerified ==
  \A p \in Procs :
    /\ resp[p].kind = "next" => resp[p].token = Undefined
    /\ req[p].op = "getMe" => resp[p].token = Undefined
    /\ resp[p].token # Undefined =>
         /\ resp[p].kind = "json"
         /\ resp[p].status \in {200, 201}
         /\ req[p].op \in {"register", "login"}
         /\ resp[p].token[1].id \in Records(req[p].email)
         /\ comparePassword(users[resp[p].token[1].id], req[p].password)
         /\ resp[p].status = 201 => path[p] = "reg_created"

C10_Witness ==
  \E p \in Procs, q \in Procs :
    /\ path[p] = "login_ok" /\ resp[p].token = Some([id |-> 1])
    /\ path[q] = "reg_wrong_password" /\ resp[q].token = Undefined

(* The position of the document with this email. *)
RecordOf(email) == CHOOSE i \in Records(email) : TRUE

(* The value of an optional field counts as absent: undefined, or the empty *)
(* string.  The number 0 is a value.                                        *)
IsAbsent(f, v) == v = Undefined \/ (f # "age" /\ v = Some(""))

(* The value of an optional field is truthy. *)
IsTruthy(f, v) == IF f = "age" THEN TruthyNumber(v) ELSE TruthyString(v)

(* C2: over calls made one after the other, an optional field of a document *)
(* that has a value keeps it.                                               *)
C2_SetFieldKept ==
  [][\A i \in DOMAIN users, f \in Fields :
       ~IsAbsent(f, users[i][f]) => users'[i][f] = users[i][f]]_vars

Is400(r) ==
  r.kind = "next" /\ r.error = "AppError" /\ r.status = 400 /\ r.token = Undefined
  /\ r.user = Undefined

(* Slot p takes a step of a register call for an email that has a document, *)
(* with no password or a password that is not the document's.               *)
ChallengedStep(p) ==
  /\ req[p].op = "register"
  /\ pc[p] \in {"reg_findOne", "reg_compare"}
  /\ pc'[p] # pc[p]
  /\ Records(req[p].email) # {}
  /\ \/ ~TruthyString(req[p].password)
     \/ ~comparePassword(users[RecordOf(req[p].email)], req[p].password)

(* C4: a register call for an email that has a document, with no password *)
(* or a password that is not the document's, ends with a 400 error passed *)
(* to next(), sends no token, and no step of it changes the collection.   *)
C4_ChallengeRejected ==
  [][\A p \in Procs :
       ChallengedStep(p) =>
         /\ users' = users
         /\ IF pc[p] = "reg_findOne" /\ TruthyString(req[p].password)
            THEN pc'[p] = "reg_compare"
            ELSE pc'[p] = "done" /\ Is400(resp'[p])]_vars

C4_Witness ==
  \E p \in Procs, q \in Procs :
    /\ path[p] = "reg_no_password" /\ Is400(resp[p])
    /\ path[q] = "reg_wrong_password" /\ Is400(resp[q])
    /\ req[q].phone # Undefined
    /\ users[RecordOf(req[q].email)].phone = Undefined

(* The response of a failed login. *)
Invalid401 ==
  [kind |-> "next", status |-> 401, message |-> "Invalid credentials",
   user |-> Undefined, token |-> Undefined, error |-> "AppError"]

(* Slot p takes a step of a login call that finds no document for the email *)
(* or finds that the password is not the document's.                        *)
FailedLoginStep(p) ==
  /\ pc'[p] # pc[p]
  /\ \/ pc[p] = "login_findOne" /\ Records(req[p].email) = {}
     \/ pc[p] = "login_compare" /\ ~comparePassword(user[p][1], req[p].password)

(* C6: a login with email and password present whose email has no document *)
(* and one whose password is not the document's end with the same response, *)
(* the 401 'Invalid credentials' error without a token, and no step of a    *)
(* login changes the collection.                                            *)
C6_LoginEnumerationSafe ==
  [][\A p \in Procs :
       /\ (pc[p] \in {"login_findOne", "login_compare"} /\ pc'[p] # pc[p]) =>
            users' = users
       /\ FailedLoginStep(p) => (pc'[p] = "done" /\ resp'[p] = Invalid401)]_vars

C6_Witness ==
  \E p \in Procs, q \in Procs :
    /\ path[p] = "login_no_user" /\ path[q] = "login_wrong_password"
    /\ resp[p] = resp[q]
    /\ resp[p] = Invalid401
    /\ req[p].password = req[q].password

(* C7: served alone, a register call with a password for an email that has *)
(* no document appends exactly one document, with the fields of the body,  *)
(* and sends 201 with a token whose claims are the id of that document.    *)
C7_NewAccountCreated ==
  [][\A p \in Procs :
       (pc[p] = "reg_create" /\ pc'[p] = "done" /\ TruthyString(req[p].password)) =>
         /\ Len(users') = Len(users) + 1
         /\ SubSeq(users', 1, Len(users)) = users
         /\ LET doc == users'[Len(users')]
            IN  /\ Records(req[p].email)' = {doc._id}
                /\ doc._id = Len(users')
                /\ doc.name = req[p].name
                /\ doc.password = Hash(req[p].password[1])
                /\ doc.phone = req[p].phone
                /\ doc.age = req[p].age
                /\ doc.gender = req[p].gender
                /\ resp'[p].kind = "json"
                /\ resp'[p].status = 201
                /\ resp'[p].token = Some([id |-> doc._id])
                /\ resp'[p].user[1].id = doc._id
                /\ resp'[p].user[1].email = req[p].email[1]]_vars

C7_Witness ==
  \E p \in Procs :
    /\ path[p] = "reg_created"
    /\ resp[p].status = 201
    /\ resp[p].token = Some([id |-> 2])
    /\ users[2].email = req[p].email[1]
    /\ users[2].age = Some(30)

(* Slot p returns from the recognized path of register. *)
RecognizedReturn(p) ==
  /\ pc'[p] = "done"
  /\ \/ pc[p] = "reg_save"
     \/ pc[p] = "reg_compare" /\ comparePassword(existingUser[p][1], req[p].password)

(* C8: served alone, the recognized path of register gives each optional   *)
(* field that is absent on the document and has a value in the body the    *)
(* value of the body, leaves every other field as it is, and saves exactly *)
(* when a field changed.                                                   *)
C8_BackfillExact ==
  [][\A p \in Procs :
       RecognizedReturn(p) =>
         LET old == users[RecordOf(req[p].email)]
             new == users'[RecordOf(req[p].email)]
         IN  /\ \A f \in Fields :
                  new[f] = IF IsAbsent(f, old[f]) /\ ~IsAbsent(f, req[p][f])
                           THEN req[p][f] ELSE old[f]
             /\ (pc[p] = "reg_save") <=> (new # old)]_vars

(* C9: a save of the recognized path does not replace a truthy value that *)
(* the document has in the collection.                                    *)
C9_SaveKeepsPersisted ==
  [][\A p \in Procs :
       (pc[p] = "reg_save" /\ pc'[p] = "done") =>
         \A f \in Fields :
           LET i == existingUser[p][1]._id
           IN  IsTruthy(f, users[i][f]) => users'[i][f] = users[i][f]]_vars

====
